---- MODULE Spec2Model ----
(***************************************************************************)
(* Model of nova/scheduler/client/report.py: the safe_connect decorator    *)
(* (circuit breaker), SchedulerReportClient._get_resource_provider,        *)
(* _create_resource_provider, _ensure_resource_provider and                *)
(* update_resource_stats, run by two threads over one or two client        *)
(* objects against one placement service.                                  *)
(*                                                                         *)
(* A thread yields only while it waits for the placement service, so one   *)
(* action is the code from one remote request (its reply included) up to   *)
(* the next one.  Returning to the caller is local and immediate: while a  *)
(* frame is "done" the only step is its Return.                            *)
(* Python's None                                                           *)
(* is the empty set where a ResourceProvider is expected ({rp} is a present *)
(* object) and the string "None" where a name is expected.                 *)
(***************************************************************************)
EXTENDS Integers, Sequences, FiniteSets, TLC

\* ------------------------------------------------------------------ bounds
\* Public calls (Ensure or update_resource_stats) started in one behaviour.
MaxCalls == 2
\* Writes by other users of the placement service in one behaviour.
MaxOther == 1

\* ------------------------------------------------------------------ inputs
Threads == {"t1", "t2"}
Clients == {"c1", "c2"}
\* The two threads share one SchedulerReportClient, or each has its own.
Deployments == {[t \in Threads |-> "c1"],
                [t \in Threads |-> IF t = "t1" THEN "c1" ELSE "c2"]}

Ids == {"rp-1", "rp-2"}
NoName == "None"
\* name arguments of _ensure_resource_provider: None (the default) or a host name
NameArgs == {NoName, "host-a"}
\* compute nodes handed to update_resource_stats
ComputeNodes == [uuid : Ids, hypervisor_hostname : {"host-a"}]
\* what another actor writes into the placement service
OtherNames == {"host-c-other"}
OtherGenerations == {2}

\* ------------------------------------------------------------ python values
None == {}
ResourceProvider(uuid, name, generation) ==
    [uuid |-> uuid, name |-> name, generation |-> generation]

Ret(v) == [kind |-> "ret", val |-> v, exc |-> ""]
Raise(e) == [kind |-> "raise", val |-> None, exc |-> e]
Pending == [kind |-> "pending", val |-> None, exc |-> ""]
\* the nested call `return self._get_resource_provider(uuid)` still to run
CallGet == [kind |-> "call_get", val |-> None, exc |-> ""]

\* ---------------------------------------------------------- the transport
ConfigFaults == {"EndpointNotFound", "MissingAuthPlugin"}
Exceptions == ConfigFaults \cup {"ConnectFailure", "OtherError"}

Response(status, name, generation) ==
    [kind |-> "resp", status |-> status, name |-> name,
     generation |-> generation, exc |-> ""]
Fault(e) == [kind |-> "exc", status |-> 0, name |-> "", generation |-> 0, exc |-> e]
NoReply == [kind |-> "none", status |-> 0, name |-> "", generation |-> 0, exc |-> ""]

\* a status the code has no branch for
OtherStatuses == {503}

VARIABLES
    disabled,            \* disabled[c]: self._disabled of client c
    resource_providers,  \* resource_providers[c]: self._resource_providers
    remote,              \* the records held by the placement service
    clientOf,            \* clientOf[t]: the client object thread t calls
    th,                  \* th[t]: the frame of thread t's public call
    tripped,             \* history: a wrapped call of c failed with a config fault
    cfSeen,              \* history: a wrapped call of c failed with ConnectFailure
    created,             \* history: created[u] = number of 201 replies for u
    warned,              \* history: warned[c] = "now disabled" warnings logged by c
    calls,               \* history: public calls started
    others               \* history: writes by other actors

vars == <<disabled, resource_providers, remote, clientOf, th, tripped, cfSeen,
          created, warned, calls, others>>

Idle ==
    [pc |-> "idle", op |-> "", uuid |-> "", name |-> NoName, eret |-> Pending,
     reqs |-> <<>>, reply |-> NoReply, afterTrip |-> FALSE, saved |-> FALSE]

\* ---------------------------------------------------- placement service
Existing(u) == {r \in remote : r.uuid = u}

\* GET /resource_providers/{uuid}
GetReplies(u) ==
    (IF Existing(u) = {}
        THEN {Response(404, "", 0)}
        ELSE {Response(200, r.name, r.generation) : r \in Existing(u)})
    \cup {Response(s, "", 0) : s \in OtherStatuses}
    \cup {Fault(e) : e \in Exceptions}

\* POST /resource_providers {uuid, name}
PostReplies(u) ==
    {IF Existing(u) = {} THEN Response(201, "", 0) ELSE Response(409, "", 0)}
    \cup {Response(s, "", 0) : s \in OtherStatuses}
    \cup {Fault(e) : e \in Exceptions}

RemoteAfterPost(u, n, reply) ==
    IF reply.kind = "resp" /\ reply.status = 201
        THEN remote \cup {ResourceProvider(u, n, 1)}
        ELSE remote

\* --------------------------------------------------------------- the code
\* the dict rebuilt with the one entry
DictSet_Replace(d, u, v) == [x \in {u} |-> v]

EmptyDict == [u \in {} |-> None]
\* self._resource_providers[uuid] = rp
DictSet(d, u, v) == [x \in DOMAIN d \cup {u} |-> IF x = u THEN v ELSE d[x]]

\* safe_connect, lines 36-37: `if self._disabled: return`, on the flag read
Skips(flag) == flag

\* safe_connect with the MissingAuthPlugin handler not setting the flag
safe_connect_NoAuthTrip(out) ==
    IF out.kind = "raise"
        THEN IF out.exc = "EndpointNotFound"
                THEN [out |-> Ret(None), disable |-> TRUE]
             ELSE IF out.exc \in {"MissingAuthPlugin", "ConnectFailure"}
                THEN [out |-> Ret(None), disable |-> FALSE]
             ELSE [out |-> out, disable |-> FALSE]
        ELSE [out |-> out, disable |-> FALSE]

\* safe_connect with the EndpointNotFound handler not setting the flag
safe_connect_NoEndpointTrip(out) ==
    IF out.kind = "raise"
        THEN IF out.exc = "MissingAuthPlugin"
                THEN [out |-> Ret(None), disable |-> TRUE]
             ELSE IF out.exc \in {"EndpointNotFound", "ConnectFailure"}
                THEN [out |-> Ret(None), disable |-> FALSE]
             ELSE [out |-> out, disable |-> FALSE]
        ELSE [out |-> out, disable |-> FALSE]

\* safe_connect without the `except ks_exc.ConnectFailure` clause
safe_connect_NoConnectHandler(out) ==
    IF out.kind = "raise" /\ out.exc \in ConfigFaults
        THEN [out |-> Ret(None), disable |-> TRUE]
        ELSE [out |-> out, disable |-> FALSE]

\* safe_connect with ConnectFailure handled like a configuration fault
safe_connect_ConnectTrips(out) ==
    IF out.kind = "raise" /\ out.exc \in ConfigFaults \cup {"ConnectFailure"}
        THEN [out |-> Ret(None), disable |-> TRUE]
        ELSE [out |-> out, disable |-> FALSE]

\* safe_connect with a bare `except:` in place of the three clauses
safe_connect_CatchAll(out) ==
    IF out.kind = "raise"
        THEN [out |-> Ret(None), disable |-> out.exc \in ConfigFaults]
        ELSE [out |-> out, disable |-> FALSE]

\* safe_connect, lines 38-52: what the wrapper makes of the outcome of f.
\* disable says whether the handler ran `self._disabled = True`.
safe_connect(out) ==
    IF out.kind = "raise"
        THEN IF out.exc = "EndpointNotFound"
                THEN [out |-> Ret(None), disable |-> TRUE]
             ELSE IF out.exc = "MissingAuthPlugin"
                THEN [out |-> Ret(None), disable |-> TRUE]
             ELSE IF out.exc = "ConnectFailure"
                THEN [out |-> Ret(None), disable |-> FALSE]
             ELSE [out |-> out, disable |-> FALSE]
        ELSE [out |-> out, disable |-> FALSE]

\* the flag assigned from the outcome of every call, not only set on a fault
NewDisabled_Assign(old, w) == w.disable

\* self._disabled after the wrapper handled an outcome
NewDisabled(old, w) == IF w.disable THEN TRUE ELSE old

\* _get_resource_provider building the record with generation 1, as
\* _create_resource_provider does
get_resource_provider_FirstGeneration(uuid, reply) ==
    IF reply.kind = "exc" THEN Raise(reply.exc)
    ELSE IF reply.status = 200 THEN Ret({ResourceProvider(uuid, reply.name, 1)})
    ELSE Ret(None)

\* _get_resource_provider raising on a status it has no branch for
get_resource_provider_RaisesOnError(uuid, reply) ==
    IF reply.kind = "exc" THEN Raise(reply.exc)
    ELSE IF reply.status = 200
        THEN Ret({ResourceProvider(uuid, reply.name, reply.generation)})
    ELSE IF reply.status = 404 THEN Ret(None)
    ELSE Raise("OtherError")

\* _get_resource_provider with uuid= and name= swapped
get_resource_provider_SwappedFields(uuid, reply) ==
    IF reply.kind = "exc" THEN Raise(reply.exc)
    ELSE IF reply.status = 200
        THEN Ret({ResourceProvider(reply.name, uuid, reply.generation)})
    ELSE Ret(None)

\* _get_resource_provider, lines 98-117, on the reply of self.get
get_resource_provider(uuid, reply) ==
    IF reply.kind = "exc" THEN Raise(reply.exc)
    ELSE IF reply.status = 200
        THEN Ret({ResourceProvider(uuid, reply.name, reply.generation)})
    ELSE IF reply.status = 404 THEN Ret(None)
    ELSE Ret(None)

\* _create_resource_provider taking 409 for a creation
create_resource_provider_ConflictAsCreated(uuid, name, reply) ==
    IF reply.kind = "exc" THEN Raise(reply.exc)
    ELSE IF reply.status \in {201, 409} THEN Ret({ResourceProvider(uuid, name, 1)})
    ELSE Ret(None)

\* _create_resource_provider without the 409 branch
create_resource_provider_ConflictAsError(uuid, name, reply) ==
    IF reply.kind = "exc" THEN Raise(reply.exc)
    ELSE IF reply.status = 201 THEN Ret({ResourceProvider(uuid, name, 1)})
    ELSE Ret(None)

\* _create_resource_provider reading the generation from the 201 body
create_resource_provider_BodyGeneration(uuid, name, reply) ==
    IF reply.kind = "exc" THEN Raise(reply.exc)
    ELSE IF reply.status = 201
        THEN Ret({ResourceProvider(uuid, name, reply.generation)})
    ELSE IF reply.status = 409 THEN CallGet
    ELSE Ret(None)

\* _create_resource_provider re-fetching after every status but 201
create_resource_provider_RefetchOnError(uuid, name, reply) ==
    IF reply.kind = "exc" THEN Raise(reply.exc)
    ELSE IF reply.status = 201 THEN Ret({ResourceProvider(uuid, name, 1)})
    ELSE CallGet

\* _create_resource_provider, lines 129-164, on the reply of self.post
create_resource_provider(uuid, name, reply) ==
    IF reply.kind = "exc" THEN Raise(reply.exc)
    ELSE IF reply.status = 201 THEN Ret({ResourceProvider(uuid, name, 1)})
    ELSE IF reply.status = 409 THEN CallGet
    ELSE Ret(None)

\* _ensure_resource_provider without the cache lookup
CacheHit_Never(c, u) == FALSE

\* _ensure_resource_provider, line 182
CacheHit(c, u) == u \in DOMAIN resource_providers[c]

\* _ensure_resource_provider, line 187: `name = name or uuid`
EffectiveName(name, uuid) == IF name = NoName \/ name = "" THEN uuid ELSE name

\* _ensure_resource_provider without `if rp is None: return`
CacheAfter_NoNoneCheck(c, u, out) ==
    IF out.kind = "ret"
        THEN [resource_providers EXCEPT ![c] = DictSet(@, u, out.val)]
        ELSE resource_providers

\* _ensure_resource_provider, lines 189-192, on the outcome of the last
\* wrapped call: the cache afterwards
CacheAfter(c, u, out) ==
    IF out.kind = "ret" /\ out.val # None
        THEN [resource_providers EXCEPT ![c] = DictSet(@, u, out.val)]
        ELSE resource_providers

\* update_resource_stats returning what _ensure_resource_provider returned
PublicRet_Propagates(t) == th[t].eret

\* update_resource_stats, lines 199-201: the value of _ensure_resource_provider
\* is dropped; an exception is not
PublicRet(t) ==
    IF th[t].op = "update_resource_stats" /\ th[t].eret.kind = "ret"
        THEN Ret(None)
        ELSE th[t].eret

Init ==
    /\ disabled = [c \in Clients |-> FALSE]
    /\ resource_providers = [c \in Clients |-> EmptyDict]
    /\ remote = {}
    /\ clientOf \in Deployments
    /\ th = [t \in Threads |-> Idle]
    /\ tripped = [c \in Clients |-> FALSE]
    /\ cfSeen = [c \in Clients |-> FALSE]
    /\ created = [u \in Ids |-> 0]
    /\ warned = [c \in Clients |-> 0]
    /\ calls = 0
    /\ others = 0

\* history kept beside the code: the requests a frame issued and its last
\* reply, the faults a client met, the warnings of lines 40-49 it logged
GetRequest(u) == [verb |-> "GET", uuid |-> u, name |-> ""]
PostRequest(u, n) == [verb |-> "POST", uuid |-> u, name |-> n]
TripsNow(c, reply) ==
    tripped[c] \/ (reply.kind = "exc" /\ reply.exc \in ConfigFaults)
HistoryAfter(c, reply) ==
    /\ tripped' = [tripped EXCEPT ![c] = TripsNow(c, reply)]
    /\ cfSeen' = [cfSeen EXCEPT
                    ![c] = @ \/ (reply.kind = "exc" /\ reply.exc = "ConnectFailure")]
    /\ warned' = [warned EXCEPT
                    ![c] = IF reply.kind = "exc" /\ reply.exc \in ConfigFaults
                              THEN @ + 1 ELSE @]

\* The threads are interchangeable: the first call of a behaviour is t1's.
MayStart(t) == t = "t1" \/ calls > 0

\* No call is at its return statement.
NoReturnPending == \A t \in Threads : th[t].pc # "done"

\* _ensure_resource_provider, lines 182-190, up to the first request, on the
\* frame f of a call on client c: the cache lookup, then the wrapper of
\* _get_resource_provider reads the flag; when it skips, rp is None and the
\* wrapper of _create_resource_provider reads the flag too.
EnsureEntry(c, f) ==
    IF CacheHit(c, f.uuid)
        THEN [f EXCEPT !.pc = "done", !.eret = Ret(resource_providers[c][f.uuid])]
    ELSE IF Skips(disabled[c])
        THEN [f EXCEPT !.pc = "done", !.eret = Ret(None), !.afterTrip = tripped[c]]
    ELSE [f EXCEPT !.pc = "get", !.afterTrip = tripped[c]]

\* A caller invokes _ensure_resource_provider(uuid, name).
Ensure(t, u, n) ==
    /\ NoReturnPending
    /\ th[t].pc = "idle"
    /\ MayStart(t)
    /\ calls < MaxCalls
    /\ calls' = calls + 1
    /\ th' = [th EXCEPT ![t] =
                EnsureEntry(clientOf[t],
                            [Idle EXCEPT !.op = "_ensure_resource_provider",
                                         !.uuid = u, !.name = n])]
    /\ UNCHANGED <<disabled, resource_providers, remote, clientOf, tripped, cfSeen,
                   created, warned, others>>

\* update_resource_stats, lines 199-201: compute_node.save(), which returns
\* or raises, then the call of _ensure_resource_provider.
UpdateResourceStats(t, node, saveRaises) ==
    /\ NoReturnPending
    /\ th[t].pc = "idle"
    /\ MayStart(t)
    /\ calls < MaxCalls
    /\ calls' = calls + 1
    /\ th' = [th EXCEPT ![t] =
                IF saveRaises
                    THEN [Idle EXCEPT !.pc = "done", !.op = "update_resource_stats",
                                      !.uuid = node.uuid,
                                      !.name = node.hypervisor_hostname,
                                      !.eret = Raise("OtherError")]
                    ELSE EnsureEntry(clientOf[t],
                            [Idle EXCEPT !.op = "update_resource_stats",
                                         !.uuid = node.uuid,
                                         !.name = node.hypervisor_hostname,
                                         !.saved = TRUE])]
    /\ UNCHANGED <<disabled, resource_providers, remote, clientOf, tripped, cfSeen,
                   created, warned, others>>

\* _get_resource_provider called from line 185: the GET and its reply under
\* the wrapper, then lines 186-192 up to the POST.
GetResponse(t, reply) ==
    LET c == clientOf[t]
        f == th[t]
        w == safe_connect(get_resource_provider(f.uuid, reply))
        dis == NewDisabled(disabled[c], w)
        g == [f EXCEPT !.reqs = Append(@, GetRequest(f.uuid)), !.reply = reply]
    IN  /\ NoReturnPending
        /\ f.pc = "get"
        /\ disabled' = [disabled EXCEPT ![c] = dis]
        /\ HistoryAfter(c, reply)
        /\ IF w.out.kind = "ret" /\ w.out.val = None
              THEN /\ resource_providers' = resource_providers
                   /\ th' = [th EXCEPT ![t] =
                        IF Skips(dis)
                            THEN [g EXCEPT !.pc = "done", !.eret = Ret(None),
                                           !.afterTrip = TripsNow(c, reply)]
                            ELSE [g EXCEPT !.pc = "post",
                                           !.afterTrip = TripsNow(c, reply)]]
              ELSE /\ resource_providers' = CacheAfter(c, f.uuid, w.out)
                   /\ th' = [th EXCEPT ![t] = [g EXCEPT !.pc = "done", !.eret = w.out]]
        /\ UNCHANGED <<remote, clientOf, created, calls, others>>

\* _create_resource_provider called from line 188 with name = name or uuid:
\* the POST and its reply under the wrapper; on 409 the wrapper of the nested
\* _get_resource_provider reads the flag; then lines 189-192.
PostResponse(t, reply) ==
    LET c == clientOf[t]
        f == th[t]
        n == EffectiveName(f.name, f.uuid)
        w == safe_connect(create_resource_provider(f.uuid, n, reply))
        dis == NewDisabled(disabled[c], w)
        g == [f EXCEPT !.reqs = Append(@, PostRequest(f.uuid, n)), !.reply = reply]
    IN  /\ NoReturnPending
        /\ f.pc = "post"
        /\ remote' = RemoteAfterPost(f.uuid, n, reply)
        /\ created' = [created EXCEPT ![f.uuid] =
                          IF reply.kind = "resp" /\ reply.status = 201
                              THEN @ + 1 ELSE @]
        /\ disabled' = [disabled EXCEPT ![c] = dis]
        /\ HistoryAfter(c, reply)
        /\ IF w.out.kind = "call_get"
              THEN /\ resource_providers' = resource_providers
                   /\ th' = [th EXCEPT ![t] =
                        IF Skips(dis)
                            THEN [g EXCEPT !.pc = "done", !.eret = Ret(None),
                                           !.afterTrip = TripsNow(c, reply)]
                            ELSE [g EXCEPT !.pc = "reget",
                                           !.afterTrip = TripsNow(c, reply)]]
              ELSE /\ resource_providers' = CacheAfter(c, f.uuid, w.out)
                   /\ th' = [th EXCEPT ![t] = [g EXCEPT !.pc = "done", !.eret = w.out]]
        /\ UNCHANGED <<clientOf, calls, others>>

\* _get_resource_provider called from line 154: the GET and its reply under
\* its own wrapper and under the wrapper of _create_resource_provider, then
\* lines 189-192.
RegetResponse(t, reply) ==
    LET c == clientOf[t]
        f == th[t]
        inner == safe_connect(get_resource_provider(f.uuid, reply))
        outer == safe_connect(inner.out)
        dis == NewDisabled(NewDisabled(disabled[c], inner), outer)
        g == [f EXCEPT !.reqs = Append(@, GetRequest(f.uuid)), !.reply = reply]
    IN  /\ NoReturnPending
        /\ f.pc = "reget"
        /\ disabled' = [disabled EXCEPT ![c] = dis]
        /\ HistoryAfter(c, reply)
        /\ resource_providers' = CacheAfter(c, f.uuid, outer.out)
        /\ th' = [th EXCEPT ![t] = [g EXCEPT !.pc = "done", !.eret = outer.out]]
        /\ UNCHANGED <<remote, clientOf, created, calls, others>>

\* lines 183, 190, 192 and 201: the public call returns to its caller.
Return(t) ==
    /\ th[t].pc = "done"
    /\ th' = [th EXCEPT ![t] = Idle]
    /\ UNCHANGED <<disabled, resource_providers, remote, clientOf, tripped, cfSeen,
                   created, warned, calls, others>>

\* Another user of the placement service writes or replaces the record of u.
OtherActorPut(u, n, gen) ==
    /\ NoReturnPending
    /\ others < MaxOther
    /\ others' = others + 1
    /\ Existing(u) # {ResourceProvider(u, n, gen)}
    /\ remote' = (remote \ Existing(u)) \cup {ResourceProvider(u, n, gen)}
    /\ UNCHANGED <<disabled, resource_providers, clientOf, th, tripped, cfSeen,
                   created, warned, calls>>

\* Another user of the placement service deletes the record of u.
OtherActorDelete(u) ==
    /\ NoReturnPending
    /\ others < MaxOther
    /\ others' = others + 1
    /\ Existing(u) # {}
    /\ remote' = remote \ Existing(u)
    /\ UNCHANGED <<disabled, resource_providers, clientOf, th, tripped, cfSeen,
                   created, warned, calls>>

ClientStep ==
    \/ \E t \in Threads, u \in Ids, n \in NameArgs : Ensure(t, u, n)
    \/ \E t \in Threads, node \in ComputeNodes, saveRaises \in BOOLEAN :
            UpdateResourceStats(t, node, saveRaises)
    \/ \E t \in Threads : \E reply \in GetReplies(th[t].uuid) : GetResponse(t, reply)
    \/ \E t \in Threads : \E reply \in PostReplies(th[t].uuid) : PostResponse(t, reply)
    \/ \E t \in Threads : \E reply \in GetReplies(th[t].uuid) : RegetResponse(t, reply)
    \/ \E t \in Threads : Return(t)

OtherActorStep ==
    \/ \E u \in Ids, n \in OtherNames, gen \in OtherGenerations : OtherActorPut(u, n, gen)
    \/ \E u \in Ids : OtherActorDelete(u)

Next == ClientStep \/ OtherActorStep

\* Clients and threads over a placement service nobody else writes to.
NextUnique == ClientStep

Spec == Init /\ [][Next]_vars
SpecUnique == Init /\ [][NextUnique]_vars

\* ------------------------------------------------------------ properties
Done(t) == th[t].pc = "done"
Got(t, status) == th[t].reply.kind = "resp" /\ th[t].reply.status = status
Failed(t, e) == th[t].reply.kind = "exc" /\ th[t].reply.exc = e
Verbs(t) == [i \in 1..Len(th[t].reqs) |-> th[t].reqs[i].verb]
\* thread t issues a request and takes its reply in this step
Receives(t) == Len(th'[t].reqs) = Len(th[t].reqs) + 1
\* thread t enters _ensure_resource_provider in this step
Enters(t) ==
    /\ th[t].pc = "idle"
    /\ th'[t].pc # "idle"
    /\ th'[t].op = "_ensure_resource_provider" \/ th'[t].saved

\* C1. Circuit permanence: a wrapped call that starts after a wrapped call of
\* the same client failed with EndpointNotFound or MissingAuthPlugin returns
\* None at once, so the public call holding it is at its return with None,
\* and no frame holding such a call ever issues a request; an earlier wrapped
\* call still in flight may complete.
C1_StartedAfterTripReturnsNone ==
    \A t \in Threads :
        th[t].afterTrip => Done(t) /\ th[t].eret = Ret(None)
C1_CircuitPermanence ==
    /\ []C1_StartedAfterTripReturnsNone
    /\ [][\A t \in Threads : Receives(t) => ~th[t].afterTrip]_vars
C1_Witness ==
    \E t \in Threads :
        /\ Done(t) /\ th[t].afterTrip
        /\ th[t].reqs = <<>> /\ th[t].eret = Ret(None)
        /\ th[t].uuid \notin DOMAIN resource_providers[clientOf[t]]

\* C2. The circuit flag starts false and never goes from true to false.
C2_FlagMonotonic ==
    /\ \A c \in Clients : ~disabled[c]
    /\ [][\A c \in Clients : disabled[c] => disabled'[c]]_vars
\* a fetch that started before the trip succeeds while the flag is true
C2_Witness ==
    \E t \in Threads :
        /\ disabled[clientOf[t]]
        /\ Done(t) /\ Got(t, 200) /\ th[t].eret.val # None

\* C3. Conflict reconciliation: after a POST answered 409, the outcome of
\* _create_resource_provider, and of _ensure_resource_provider, is the outcome
\* of the nested _get_resource_provider: the record built from the GET body
\* on 200, None on any other status, on a classified fault, or when the
\* circuit tripped meanwhile so that no GET is sent; an unclassified error of
\* that GET is the error of both.
C3_ConflictReconciliation ==
    \A t \in Threads :
        /\ (Done(t) /\ Verbs(t) = <<"GET", "POST", "GET">>) =>
              th[t].eret =
                 IF Got(t, 200)
                    THEN Ret({ResourceProvider(th[t].uuid, th[t].reply.name,
                                               th[t].reply.generation)})
                 ELSE IF Failed(t, "OtherError") THEN Raise("OtherError")
                 ELSE Ret(None)
        /\ (Done(t) /\ Got(t, 409)) => th[t].eret = Ret(None)
        /\ Got(t, 409) => Done(t) \/ th[t].pc = "reget"
C3_Witness ==
    \E t \in Threads :
        /\ Done(t) /\ Verbs(t) = <<"GET", "POST", "GET">> /\ Got(t, 200)
        /\ th[t].name = "host-a"
        /\ th[t].eret = Ret({ResourceProvider(th[t].uuid, "host-c-other", 2)})

\* C4. Remote uniqueness: with a placement service that answers 409 to a POST
\* for an identifier it holds, and no other writer, every identifier has at
\* most one record, at most one POST for it was ever answered 201, and a
\* caller answered 409 goes on to the re-fetch (or finds the circuit tripped).
C4_RemoteUniqueness ==
    /\ \A u \in Ids : Cardinality(Existing(u)) <= 1 /\ created[u] <= 1
    /\ \A t \in Threads :
          Got(t, 409) =>
             \/ th[t].pc = "reget"
             \/ Done(t) /\ disabled[clientOf[t]]
C4_Witness ==
    \E t \in Threads :
        /\ th[t].pc = "reget"
        /\ created[th[t].uuid] = 1
        /\ Cardinality(Existing(th[t].uuid)) = 1

C6_GetOrCreate ==
    \A t \in Threads :
        (Done(t) /\ Verbs(t) = <<"GET", "POST">> /\ Got(t, 201)) =>
            LET rp == ResourceProvider(th[t].uuid,
                          IF th[t].name = NoName THEN th[t].uuid ELSE th[t].name,
                          1)
            IN  /\ th[t].eret = Ret({rp})
                /\ th[t].uuid \in DOMAIN resource_providers[clientOf[t]]
                /\ resource_providers[clientOf[t]][th[t].uuid] = {rp}
                /\ th[t].reqs[2] = PostRequest(rp.uuid, rp.name)
C6_Witness ==
    \E t \in Threads :
        /\ Done(t) /\ Verbs(t) = <<"GET", "POST">> /\ Got(t, 201)
        /\ th[t].name = NoName
        /\ th[t].eret = Ret({ResourceProvider(th[t].uuid, th[t].uuid, 1)})

\* C7. Found on fetch: a call whose first GET is answered 200 issues no other
\* request and returns, and has cached under uuid, the record with that uuid
\* and the name and generation of the GET body.
C7_FoundOnFetch ==
    \A t \in Threads :
        (Got(t, 200) /\ Len(th[t].reqs) = 1) =>
            LET rp == ResourceProvider(th[t].uuid, th[t].reply.name,
                                       th[t].reply.generation)
            IN  /\ Done(t) /\ Verbs(t) = <<"GET">>
                /\ th[t].eret = Ret({rp})
                /\ th[t].uuid \in DOMAIN resource_providers[clientOf[t]]
                /\ resource_providers[clientOf[t]][th[t].uuid] = {rp}
C7_Witness ==
    \E t \in Threads :
        /\ Done(t) /\ Verbs(t) = <<"GET">> /\ Got(t, 200)
        /\ th[t].name = NoName
        /\ th[t].eret = Ret({ResourceProvider(th[t].uuid, "host-c-other", 2)})

\* C8 as stated. No public call ever ends with an error raised to its caller.
C8_NoErrorRaised ==
    \A t \in Threads : Done(t) => PublicRet(t).kind = "ret"
\* C8 as amended. A public call raises exactly when compute_node.save()
\* raised or the last request failed with an error other than
\* EndpointNotFound, MissingAuthPlugin and ConnectFailure, and then it raises
\* that error; after any status code and any of those three faults it
\* returns: _ensure_resource_provider a record or None, update_resource_stats
\* None.
C8_OnlyUnclassifiedErrorsRaised ==
    \A t \in Threads :
        Done(t) =>
            LET saveRaised == th[t].op = "update_resource_stats" /\ ~th[t].saved
            IN  /\ PublicRet(t).kind \in {"ret", "raise"}
                /\ PublicRet(t).kind = "raise" <=>
                      (saveRaised \/ Failed(t, "OtherError"))
                /\ PublicRet(t).kind = "raise" => PublicRet(t).exc = "OtherError"
                /\ (PublicRet(t).kind = "ret" /\ th[t].op = "update_resource_stats")
                      => PublicRet(t).val = None
C8_Witness ==
    \E t \in Threads :
        /\ Done(t) /\ th[t].op = "update_resource_stats"
        /\ Failed(t, "ConnectFailure") /\ Verbs(t) = <<"GET", "POST">>
        /\ PublicRet(t) = Ret(None)

\* C9. A wrapped call that fails with EndpointNotFound or MissingAuthPlugin
\* returns None (so the public call returns None in that step), sets the
\* circuit flag of its client and leaves the cache as it was.
C9_ConfigFault ==
    [][\A t \in Threads :
         (Receives(t) /\ th'[t].reply.kind = "exc"
                      /\ th'[t].reply.exc \in ConfigFaults) =>
            /\ disabled'[clientOf[t]]
            /\ resource_providers' = resource_providers
            /\ th'[t].pc = "done"
            /\ th'[t].eret = Ret(None)]_vars
C9_Witness ==
    \E t \in Threads :
        /\ Done(t) /\ Failed(t, "MissingAuthPlugin")
        /\ Verbs(t) = <<"GET", "POST">>
        /\ disabled[clientOf[t]] /\ th[t].eret = Ret(None)

\* C10. Transient tolerance: a wrapped call that fails with ConnectFailure
\* returns None and changes neither the circuit flag nor the cache; and on a
\* client that saw such a failure, a call whose GET is answered 200, or whose
\* GET yields nothing and whose POST is answered 201, returns a record and
\* has cached it.
C10_StepAfterConnectFailure ==
    \A t \in Threads :
        (Receives(t) /\ th'[t].reply = Fault("ConnectFailure")) =>
            /\ disabled' = disabled
            /\ resource_providers' = resource_providers
            /\ \/ th[t].pc = "get" /\ th'[t].pc = "post"
               \/ th[t].pc = "get" /\ disabled[clientOf[t]]
                     /\ th'[t].pc = "done" /\ th'[t].eret = Ret(None)
               \/ th[t].pc \in {"post", "reget"}
                     /\ th'[t].pc = "done" /\ th'[t].eret = Ret(None)
C10_LaterCallSucceeds ==
    \A t \in Threads :
        (/\ cfSeen[clientOf[t]]
         /\ Done(t)
         /\ \/ Verbs(t) = <<"GET">> /\ Got(t, 200)
            \/ Verbs(t) = <<"GET", "POST">> /\ Got(t, 201)) =>
            /\ th[t].eret.kind = "ret" /\ th[t].eret.val # None
            /\ th[t].uuid \in DOMAIN resource_providers[clientOf[t]]
            /\ resource_providers[clientOf[t]][th[t].uuid] = th[t].eret.val
C10_TransientTolerance ==
    /\ []C10_LaterCallSucceeds
    /\ [][C10_StepAfterConnectFailure]_vars
\* each client has one thread, so the call that succeeds follows the failure
C10_Witness ==
    \E t \in Threads :
        /\ \A o \in Threads \ {t} : clientOf[o] # clientOf[t]
        /\ cfSeen[clientOf[t]] /\ ~disabled[clientOf[t]]
        /\ Done(t) /\ Verbs(t) = <<"GET">> /\ Got(t, 200)
        /\ th[t].eret.val # None
        /\ resource_providers[clientOf[t]][th[t].uuid] = th[t].eret.val

\* the step in which thread t reaches its return statement
Finishes(t) == th[t].pc # "done" /\ th'[t].pc = "done"
\* the step in which thread t runs line 191 with the record it got
Writes(t) ==
    /\ Receives(t) /\ Finishes(t)
    /\ th'[t].eret.kind = "ret" /\ th'[t].eret.val # None
\* the name of the POST payload of thread t's call
PayloadName(t) == IF th[t].name = NoName THEN th[t].uuid ELSE th[t].name
\* the last reply of thread t gave the wrapped call no record and no error
NoRecordReply(t) ==
    \/ th[t].reply.kind = "resp" /\ th[t].reply.status # 200
    \/ Failed(t, "ConnectFailure")

\* C11. No caching on failure: the step that ends a call changes the cache
\* only when the call returns a record it fetched or created, and then only
\* by storing that record under the call's uuid; a call that returns None or
\* raises, and a cache hit, leave the cache as it was; no other step changes
\* the cache.
C11_EndOfCall ==
    \A t \in Threads :
        Finishes(t) =>
            LET c == clientOf[t]
                u == th'[t].uuid
                out == th'[t].eret
            IN  IF out.kind = "ret" /\ out.val # None /\ th'[t].reqs # <<>>
                   THEN /\ DOMAIN resource_providers'[c] =
                              DOMAIN resource_providers[c] \cup {u}
                        /\ resource_providers'[c][u] = out.val
                        /\ \A x \in DOMAIN resource_providers[c] \ {u} :
                              resource_providers'[c][x] = resource_providers[c][x]
                        /\ \A o \in Clients \ {c} :
                              resource_providers'[o] = resource_providers[o]
                   ELSE resource_providers' = resource_providers
C11_NoCachingOnFailure ==
    /\ [][C11_EndOfCall]_vars
    /\ [][resource_providers' # resource_providers
             => \E t \in Threads : Writes(t)]_vars
\* the conflict re-fetch failed: None returned, nothing cached
C11_Witness ==
    \E t \in Threads :
        /\ Done(t) /\ Verbs(t) = <<"GET", "POST", "GET">>
        /\ Failed(t, "ConnectFailure") /\ th[t].eret = Ret(None)
        /\ th[t].uuid \notin DOMAIN resource_providers[clientOf[t]]

\* C12. Request ordering: the requests of one call are a prefix of GET,
\* POST, GET, all for the call's uuid; the POST is sent only after the first
\* GET gave no record, the second GET only after the POST was answered 409.
C12_RequestPrefix ==
    \A t \in Threads :
        /\ Verbs(t) \in {<<>>, <<"GET">>, <<"GET", "POST">>, <<"GET", "POST", "GET">>}
        /\ \A i \in 1..Len(th[t].reqs) : th[t].reqs[i].uuid = th[t].uuid
C12_RequestStep ==
    \A t \in Threads :
        Receives(t) =>
            /\ Len(th[t].reqs) = 1 => NoRecordReply(t)
            /\ Len(th[t].reqs) = 2 => Got(t, 409)
            /\ Len(th[t].reqs) < 3
C12_RequestOrdering ==
    /\ []C12_RequestPrefix
    /\ [][C12_RequestStep]_vars
C12_Witness ==
    \E t \in Threads :
        Done(t) /\ Verbs(t) = <<"GET", "POST", "GET">> /\ Got(t, 404)

\* C13. update_resource_stats: every request of the call comes after
\* compute_node.save() returned, carries the node's uuid, the POST carries
\* its hypervisor_hostname, and the caller gets None whether
\* _ensure_resource_provider returned a record or None.
C13_SynchronizeOrdering ==
    \A t \in Threads :
        th[t].op = "update_resource_stats" =>
            /\ (th[t].reqs # <<>> \/ th[t].pc \in {"get", "post", "reget"})
                  => th[t].saved
            /\ \A i \in 1..Len(th[t].reqs) :
                  /\ th[t].reqs[i].uuid = th[t].uuid
                  /\ th[t].reqs[i].verb = "POST" => th[t].reqs[i].name = th[t].name
            /\ (Done(t) /\ th[t].eret.kind = "ret") => PublicRet(t) = Ret(None)
C13_Witness ==
    \E t \in Threads :
        /\ Done(t) /\ th[t].op = "update_resource_stats" /\ th[t].saved
        /\ Verbs(t) = <<"GET", "POST">> /\ Got(t, 201)
        /\ th[t].eret.val # None /\ PublicRet(t) = Ret(None)

\* C14 as stated. No client logs the "now disabled" warning more than once.
C14_WarnedOnce ==
    \A c \in Clients : warned[c] <= 1
\* C14 as amended. The warning is logged by each wrapped call that fails with
\* a configuration fault, and then the flag is set: a client logs it at most
\* once per calling thread (once when its calls do not overlap), never
\* without its circuit being disabled, and never from a wrapped call that
\* started after the trip.
C14_WarnedStep ==
    \A c \in Clients :
        warned'[c] # warned[c] =>
            /\ warned'[c] = warned[c] + 1
            /\ \E t \in Threads :
                  /\ clientOf[t] = c /\ Receives(t) /\ ~th[t].afterTrip
                  /\ th'[t].reply.kind = "exc" /\ th'[t].reply.exc \in ConfigFaults
C14_WarnedOncePerCaller ==
    /\ [](\A c \in Clients :
            /\ warned[c] <= Cardinality({t \in Threads : clientOf[t] = c})
            /\ warned[c] > 0 => disabled[c])
    /\ [][C14_WarnedStep]_vars
\* a call made after the trip ended without a second warning
C14_Witness ==
    \E t \in Threads :
        /\ Done(t) /\ th[t].afterTrip /\ th[t].reqs = <<>>
        /\ warned[clientOf[t]] = 1

\* C15. Create on unconfirmed absence: when the first GET of a call gives no
\* record (404, an unhandled status, ConnectFailure) and the circuit is
\* enabled, the call goes on to the POST, and the POST it sends carries the
\* call's uuid and the supplied name, or uuid when None was supplied.
C15_GoesOnToCreate ==
    \A t \in Threads :
        (Len(th[t].reqs) = 1 /\ NoRecordReply(t)) =>
            \/ th[t].pc = "post"
            \/ Done(t) /\ disabled[clientOf[t]]
C15_CreateStep ==
    \A t \in Threads :
        (th[t].pc = "post" /\ th'[t] # th[t]) =>
            th'[t].reqs = Append(th[t].reqs, PostRequest(th[t].uuid, PayloadName(t)))
C15_CreateOnUnconfirmedAbsence ==
    /\ []C15_GoesOnToCreate
    /\ [][C15_CreateStep]_vars
C15_Witness ==
    \E t \in Threads, s \in OtherStatuses :
        /\ th[t].pc = "post" /\ Got(t, s)
        /\ th[t].name = NoName /\ ~disabled[clientOf[t]]

\* C16. Pass-through: when the wrapped operation ends with a status code or
\* with an error other than the three classified faults, the call's outcome
\* is what the operation returned or raised, and the flag is not written.
C16_Outcome ==
    \A t \in Threads :
        (Done(t) /\ (th[t].reply.kind = "resp" \/ Failed(t, "OtherError"))) =>
            /\ Verbs(t) \in {<<"GET">>, <<"GET", "POST", "GET">>} =>
                  th[t].eret = get_resource_provider(th[t].uuid, th[t].reply)
            /\ (Verbs(t) = <<"GET", "POST">> /\ ~Got(t, 409)) =>
                  th[t].eret =
                     create_resource_provider(th[t].uuid, PayloadName(t), th[t].reply)
            /\ Failed(t, "OtherError") => th[t].eret = Raise("OtherError")
C16_FlagStep ==
    \A t \in Threads :
        (Receives(t) /\ (th'[t].reply.kind = "resp"
                            \/ th'[t].reply = Fault("OtherError")))
            => disabled' = disabled
C16_PassThrough ==
    /\ []C16_Outcome
    /\ [][C16_FlagStep]_vars
C16_Witness ==
    \E t \in Threads :
        /\ Done(t) /\ th[t].op = "_ensure_resource_provider"
        /\ Failed(t, "OtherError") /\ Verbs(t) = <<"GET", "POST", "GET">>
        /\ th[t].eret = Raise("OtherError") /\ ~disabled[clientOf[t]]

\* C17. An identifier present in the cache of a client stays present.
C17_CacheEntriesStay ==
    [][\A c \in Clients : \A u \in DOMAIN resource_providers[c] :
           u \in DOMAIN resource_providers'[c]]_vars
\* an entry survived the write of another entry
C17_Witness ==
    \E c \in Clients : Cardinality(DOMAIN resource_providers[c]) = 2

\* C18 as stated. No call writes the cache entry of an identifier that is
\* already in the cache.
C18_NoOverwrite ==
    [][\A t \in Threads :
          Writes(t) => th[t].uuid \notin DOMAIN resource_providers[clientOf[t]]]_vars
\* C18 as amended. On a client whose calls do not overlap (no other thread
\* calls it) no call writes the entry of an identifier already cached; only
\* a call that overlaps another call of the same client can.
C18_NoOverwriteWithoutOverlap ==
    [][\A t \in Threads :
          (Writes(t) /\ th[t].uuid \in DOMAIN resource_providers[clientOf[t]]) =>
              \E o \in Threads \ {t} : clientOf[o] = clientOf[t]]_vars
\* the second reconciliation of a client nobody else calls
C18_Witness ==
    \E t \in Threads :
        /\ \A o \in Threads \ {t} : clientOf[o] # clientOf[t]
        /\ Done(t) /\ th[t].reqs # <<>> /\ th[t].eret.val # None
        /\ Cardinality(DOMAIN resource_providers[clientOf[t]]) = 2

\* C19. Cache key consistency: every cache entry holds one ResourceProvider,
\* never None, and its uuid is the key.
C19_CacheKeyConsistency ==
    \A c \in Clients : \A u \in DOMAIN resource_providers[c] :
        /\ Cardinality(resource_providers[c][u]) = 1
        /\ \A rp \in resource_providers[c][u] : rp.uuid = u
\* entries built by a 409 re-fetch and by a 201
C19_Witness ==
    \E t \in Threads :
        /\ Done(t) /\ Verbs(t) = <<"GET", "POST", "GET">> /\ Got(t, 200)
        /\ resource_providers[clientOf[t]][th[t].uuid] = th[t].eret.val
        /\ \E o \in Clients : \E u \in DOMAIN resource_providers[o] :
              \E rp \in resource_providers[o][u] : rp.generation = 1

\* C20. Agreement: with a placement service that enforces uniqueness and no
\* other writer, every record a call returns for an identifier, and every
\* cache entry for it, is the one record the service holds for it; so all
\* callers, whatever names they passed, get equal records.
C20_Agreement ==
    /\ \A t \in Threads :
          (Done(t) /\ th[t].eret.kind = "ret" /\ th[t].eret.val # None)
              => th[t].eret.val = Existing(th[t].uuid)
    /\ \A c \in Clients : \A u \in DOMAIN resource_providers[c] :
          resource_providers[c][u] = Existing(u)
\* the loser of a race, called with a name, gets the winner's record
C20_Witness ==
    \E t \in Threads :
        /\ Done(t) /\ Verbs(t) = <<"GET", "POST", "GET">> /\ Got(t, 200)
        /\ th[t].name = "host-a"
        /\ th[t].eret = Ret({ResourceProvider(th[t].uuid, th[t].uuid, 1)})

====
